SPECIFICATION Spec
CONSTANTS
  nrql = nrql
  apm = apm
  c1 = c1
  c2 = c2
  s1 = s1
  s2 = s2
  t1 = t1
  None = None
  Kinds = {nrql, apm}
  Conditions = {c1, c2}
  Specs = {s1, s2, t1}
  KindOf <- TwoKinds
  NameOf <- MCNameOf
  SpecsFor <- MCSpecsFor
  Edits <- ForwardEdits
  Ids = {1, 2, 3}
  FaultKinds = {"get", "search", "write", "lostWrite", "save", "delete", "lostDelete", "release", "crash", "outOfBand"}
  MaxFaults = 2
  MaxUserOps = 3
INVARIANTS TypeOK ExclusiveOwnership
PROPERTIES NoRecordedLeak UserIntentSurvives ImplementsLifecycle
CHECK_DEADLOCK FALSE
