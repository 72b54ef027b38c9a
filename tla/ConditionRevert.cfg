SPECIFICATION FairSpec
CONSTANTS
  nrql = nrql
  apm = apm
  c1 = c1
  c2 = c2
  s1 = s1
  s2 = s2
  t1 = t1
  None = None
  Kinds = {nrql}
  Conditions = {c1}
  Specs = {s1, s2, t1}
  KindOf <- OneKind
  NameOf <- MCNameOf
  SpecsFor <- MCSpecsFor
  Edits <- BackAndForth
  Ids = {1, 2, 3}
  FaultKinds = {}
  MaxFaults = 0
  MaxUserOps = 3
PROPERTIES EventuallyInSync
CHECK_DEADLOCK FALSE
