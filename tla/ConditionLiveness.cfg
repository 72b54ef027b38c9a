SPECIFICATION FairSpec
CONSTANTS
  nrql = nrql
  apm = apm
  c1 = c1
  c2 = c2
  s1 = s1
  s2 = s2
  t1 = t1
  None = None
  Kinds = {nrql}
  Conditions = {c1, c2}
  Specs = {s1, s2, t1}
  KindOf <- OneKind
  NameOf <- MCNameOf
  SpecsFor <- MCSpecsFor
  Edits <- ForwardEdits
  Ids = {1, 2, 3, 4}
  FaultKinds = {"get", "write", "lostWrite", "save", "delete", "lostDelete", "release", "crash"}
  MaxFaults = 1
  MaxUserOps = 4
INVARIANTS AppliedIsTrue NoDuplicates
PROPERTIES DeletionCompletes EventuallyInSync
CHECK_DEADLOCK FALSE
